---- MODULE Spec2Model ----
(***************************************************************************)
(* Model of src/main.py: the common-file disclosure scanner.               *)
(*                                                                         *)
(* Strings are sequences of one-character strings, so that endswith,       *)
(* startswith, slicing and concatenation are computed as the code does.    *)
(* A response body is the sequence of its lines (the text split at "\n"),  *)
(* a line a sequence of characters or literal fragments; the output file   *)
(* is the sequence of the "\n"-terminated lines written to it.             *)
(* An optional value (Python's None) is a sequence of length 0 or 1.       *)
(***************************************************************************)
EXTENDS Integers, Sequences, FiniteSets, TLC

VARIABLES
    pc,           \* position of main(): start, loop, get, report, write, done, exit, crash
    args_url,     \* args.url
    args_files,   \* args.files
    args_output,  \* whether args.output is given
    idx,          \* position of the for loop of main() in args.files
    requests,     \* the URLs of the HTTP GET requests issued so far, in order
    probes,       \* per finished probe: the server's outcome and what check_file_exists returned
    found_files,  \* the dict of main(): entries [url, content] in insertion order, keys unique
    reported,     \* what main() logged after the loop: none, found, nothing
    outFile,      \* the output file: <<>> when it does not exist, <<lines>> otherwise
    writeResult,  \* none, ok, open_error, write_error
    exitCode      \* -1 while running, else the exit status of the process

vars == <<pc, args_url, args_files, args_output, idx, requests, probes,
          found_files, reported, outFile, writeResult, exitCode>>

---------------------------------------------------------------------------
(* Bounds and inputs *)

MaxFiles == 3

None == <<>>
Some(x) == <<x>>

BaseURLs ==
    { <<"h", ":", "/", "/", "x">>,
      <<"h", ":", "/", "/", "x", "/">>,
      <<"h", ":", "/", "/", "x", "/", "/">>,
      <<"x">>,
      <<"h", ":", "/", "/">> }

FileNames ==
    { <<"a">>, <<"/", "a">>, <<"/", "/", "a">> }

FileLists == UNION { [1..n -> FileNames] : n \in 1..MaxFiles }

KVLine == <<"k", "=", "v">>
NoneFoundLine == <<"No sensitive files found.">>
HeaderLine == <<"Potentially sensitive files found:">>

Body1 == <<KVLine>>
Body2 == <<KVLine, NoneFoundLine>>

\* What the HTTP layer can do with one GET: a response with a status and a
\* text, a requests.exceptions.RequestException (timeout, connection, DNS,
\* TLS), or any other exception.
Outcomes ==
    { [kind |-> "response", status |-> 200, text |-> b] : b \in {Body1, Body2} }
    \cup { [kind |-> "response", status |-> s, text |-> Body1] : s \in {204, 404} }
    \cup { [kind |-> k, status |-> 0, text |-> Body1] : k \in {"RequestException", "Exception"} }

---------------------------------------------------------------------------
(* urljoin *)

endswith(s, c) == Len(s) > 0 /\ s[Len(s)] = c
startswith(s, c) == Len(s) > 0 /\ s[1] = c

urljoin_keep_leading(base, url) ==
    LET b == IF endswith(base, "/") THEN SubSeq(base, 1, Len(base) - 1) ELSE base
    IN  b \o <<"/">> \o url

urljoin(base, url) ==
    LET b == IF endswith(base, "/") THEN SubSeq(base, 1, Len(base) - 1) ELSE base
        u == IF startswith(url, "/") THEN SubSeq(url, 2, Len(url)) ELSE url
    IN  b \o <<"/">> \o u

---------------------------------------------------------------------------
(* validate_url *)

SchemeChars == {"a", "h", "x", "+", "-", "."}
Alpha == {"a", "h", "x"}

\* The least position >= from of s holding a member of cs, Len(s) + 1 if none.
FindAny(s, cs, from) ==
    LET hits == { i \in from..Len(s) : s[i] \in cs }
    IN  IF hits = {} THEN Len(s) + 1 ELSE CHOOSE i \in hits : \A j \in hits : i <= j

\* urlparse(url), as far as its scheme and netloc.
urlparse(url) ==
    LET i == FindAny(url, {":"}, 1)
        hasScheme == /\ i <= Len(url)
                     /\ i > 1
                     /\ url[1] \in Alpha
                     /\ \A j \in 1..(i - 1) : url[j] \in SchemeChars
        scheme == IF hasScheme THEN SubSeq(url, 1, i - 1) ELSE <<>>
        rest == IF hasScheme THEN SubSeq(url, i + 1, Len(url)) ELSE url
        hasNetloc == Len(rest) >= 2 /\ rest[1] = "/" /\ rest[2] = "/"
        delim == FindAny(rest, {"/", "?", "#"}, 3)
        netloc == IF hasNetloc THEN SubSeq(rest, 3, delim - 1) ELSE <<>>
    IN  [scheme |-> scheme, netloc |-> netloc]

validate_url(url) ==
    LET result == urlparse(url)
    IN  result.scheme # <<>> /\ result.netloc # <<>>

---------------------------------------------------------------------------
(* check_file_exists *)

\* response.raise_for_status(): HTTPError for 4xx and 5xx.
raise_for_status(status) == status >= 400 /\ status < 600

Result(exists, target_url, content) ==
    [raised |-> FALSE, exists |-> exists, url |-> target_url, content |-> content]

check_file_exists_any_success(url, filename, o) ==
    LET target_url == urljoin(url, filename)
    IN  IF o.kind = "response" /\ ~raise_for_status(o.status)
        THEN Result(TRUE, target_url, Some(o.text))
        ELSE Result(FALSE, target_url, None)

check_file_exists_no_catch_all(url, filename, o) ==
    LET target_url == urljoin(url, filename)
    IN  IF o.kind = "Exception"
        THEN [raised |-> TRUE, exists |-> FALSE, url |-> target_url, content |-> None]
        ELSE IF o.kind = "response" /\ ~raise_for_status(o.status) /\ o.status = 200
        THEN Result(TRUE, target_url, Some(o.text))
        ELSE Result(FALSE, target_url, None)

check_file_exists_body_always(url, filename, o) ==
    LET target_url == urljoin(url, filename)
    IN  IF o.kind = "response" /\ ~raise_for_status(o.status)
        THEN Result(o.status = 200, target_url, Some(o.text))
        ELSE Result(FALSE, target_url, None)

\* The outcome o of the GET decides the path through the try block:
\* an exception of requests.get or of raise_for_status is a
\* RequestException, caught at line 65; any other exception is caught at
\* line 68; nothing is raised to the caller.
check_file_exists(url, filename, o) ==
    LET target_url == urljoin(url, filename)
    IN  IF o.kind = "RequestException" THEN Result(FALSE, target_url, None)
        ELSE IF o.kind = "Exception" THEN Result(FALSE, target_url, None)
        ELSE IF raise_for_status(o.status) THEN Result(FALSE, target_url, None)
        ELSE IF o.status = 200 THEN Result(TRUE, target_url, Some(o.text))
        ELSE Result(FALSE, target_url, None)

---------------------------------------------------------------------------
(* found_files[url] = content *)

HasKey(d, k) == \E i \in 1..Len(d) : d[i].url = k
IndexOf(d, k) == CHOOSE i \in 1..Len(d) : d[i].url = k

DictSet_append(d, k, v) == Append(d, [url |-> k, content |-> v])

DictSet_keep_first(d, k, v) ==
    IF HasKey(d, k) THEN d ELSE Append(d, [url |-> k, content |-> v])

\* A Python dict keeps insertion order; assigning to a key it holds
\* replaces the value and leaves the key where it is.
DictSet(d, k, v) ==
    IF HasKey(d, k)
    THEN [d EXCEPT ![IndexOf(d, k)].content = v]
    ELSE Append(d, [url |-> k, content |-> v])

---------------------------------------------------------------------------
(* the output file *)

DashCount == 40
DashLine == [i \in 1..DashCount |-> "-"]

\* str(content) split into lines; None formats as "None".
ContentLines(content) == IF content = None THEN << <<"None">> >> ELSE content[1]

RenderEntry_no_separator(e) ==
    << <<"URL: ">> \o e.url, <<"Content:">> >> \o ContentLines(e.content)

RenderEntry(e) ==
    << <<"URL: ">> \o e.url, <<"Content:">> >> \o ContentLines(e.content) \o <<DashLine>>

RECURSIVE RenderEntries(_)
RenderEntries(d) ==
    IF d = <<>> THEN <<>> ELSE RenderEntry(Head(d)) \o RenderEntries(Tail(d))

RenderFile(d) ==
    IF d # <<>> THEN <<HeaderLine>> \o RenderEntries(d) ELSE <<NoneFoundLine>>

---------------------------------------------------------------------------
(* main *)

Init ==
    /\ pc = "start"
    /\ args_url \in BaseURLs
    /\ args_files \in FileLists
    /\ args_output \in BOOLEAN
    /\ idx = 1
    /\ requests = <<>>
    /\ probes = <<>>
    /\ found_files = <<>>
    /\ reported = "none"
    /\ outFile = None
    /\ writeResult = "none"
    /\ exitCode = -1

Validate_fall_through ==
    /\ pc = "start"
    /\ pc' = IF Len(args_files) = 0 THEN "report" ELSE "loop"
    /\ UNCHANGED <<args_url, args_files, args_output, idx, requests, probes,
                   found_files, reported, outFile, writeResult, exitCode>>

\* if not validate_url(args.url): ... sys.exit(1)
Validate ==
    /\ pc = "start"
    /\ IF validate_url(args_url)
       THEN /\ pc' = IF Len(args_files) = 0 THEN "report" ELSE "loop"
            /\ exitCode' = exitCode
       ELSE /\ pc' = "exit"
            /\ exitCode' = 1
    /\ UNCHANGED <<args_url, args_files, args_output, idx, requests, probes,
                   found_files, reported, outFile, writeResult>>

\* The loop takes the next filename and check_file_exists issues the GET.
BeginProbe ==
    /\ pc = "loop"
    /\ idx <= Len(args_files)
    /\ requests' = Append(requests, urljoin(args_url, args_files[idx]))
    /\ pc' = "get"
    /\ UNCHANGED <<args_url, args_files, args_output, idx, probes,
                   found_files, reported, outFile, writeResult, exitCode>>

EndProbe_stop_at_found ==
    /\ pc = "get"
    /\ \E o \in Outcomes :
          LET r == check_file_exists(args_url, args_files[idx], o)
          IN  /\ probes' = Append(probes, [filename |-> args_files[idx], outcome |-> o,
                                           exists |-> r.exists, url |-> r.url,
                                           content |-> r.content])
              /\ found_files' = IF r.exists THEN DictSet(found_files, r.url, r.content)
                                ELSE found_files
              /\ idx' = idx + 1
              /\ pc' = IF r.exists \/ idx + 1 > Len(args_files) THEN "report" ELSE "loop"
              /\ exitCode' = exitCode
    /\ UNCHANGED <<args_url, args_files, args_output, requests, reported,
                   outFile, writeResult>>

\* The GET ends with outcome o, check_file_exists returns, and the loop body
\* stores a found result. An exception leaving check_file_exists would end
\* the process with a traceback and exit status 1.
EndProbe ==
    /\ pc = "get"
    /\ \E o \in Outcomes :
          LET r == check_file_exists(args_url, args_files[idx], o)
          IN  IF r.raised
              THEN /\ pc' = "crash"
                   /\ exitCode' = 1
                   /\ UNCHANGED <<probes, found_files, idx>>
              ELSE /\ probes' = Append(probes, [filename |-> args_files[idx], outcome |-> o,
                                                exists |-> r.exists, url |-> r.url,
                                                content |-> r.content])
                   /\ found_files' = IF r.exists THEN DictSet(found_files, r.url, r.content)
                                     ELSE found_files
                   /\ idx' = idx + 1
                   /\ pc' = IF idx + 1 > Len(args_files) THEN "report" ELSE "loop"
                   /\ exitCode' = exitCode
    /\ UNCHANGED <<args_url, args_files, args_output, requests, reported,
                   outFile, writeResult>>

\* The log lines after the loop; without an output path main() returns.
Report ==
    /\ pc = "report"
    /\ reported' = IF found_files # <<>> THEN "found" ELSE "nothing"
    /\ pc' = IF args_output THEN "write" ELSE "done"
    /\ exitCode' = IF args_output THEN exitCode ELSE 0
    /\ UNCHANGED <<args_url, args_files, args_output, idx, requests, probes,
                   found_files, outFile, writeResult>>

WriteOutput_propagate ==
    /\ pc = "write"
    /\ \E w \in {"ok", "open_error", "write_error"} :
          /\ writeResult' = w
          /\ IF w = "ok" THEN outFile' = Some(RenderFile(found_files))
             ELSE IF w = "open_error" THEN outFile' = outFile
             ELSE \E k \in 0..(Len(RenderFile(found_files)) - 1) :
                     outFile' = Some(SubSeq(RenderFile(found_files), 1, k))
          /\ pc' = IF w = "ok" THEN "done" ELSE "crash"
          /\ exitCode' = IF w = "ok" THEN 0 ELSE 1
    /\ UNCHANGED <<args_url, args_files, args_output, idx, requests, probes,
                   found_files, reported>>

\* open(args.output, "w") and the writes; an exception of either is caught
\* and logged. A failed write leaves the lines written before it.
WriteOutput ==
    /\ pc = "write"
    /\ \E w \in {"ok", "open_error", "write_error"} :
          /\ writeResult' = w
          /\ IF w = "ok" THEN outFile' = Some(RenderFile(found_files))
             ELSE IF w = "open_error" THEN outFile' = outFile
             ELSE \E k \in 0..(Len(RenderFile(found_files)) - 1) :
                     outFile' = Some(SubSeq(RenderFile(found_files), 1, k))
    /\ pc' = "done"
    /\ exitCode' = 0
    /\ UNCHANGED <<args_url, args_files, args_output, idx, requests, probes,
                   found_files, reported>>

Next ==
    \/ Validate
    \/ BeginProbe
    \/ EndProbe
    \/ Report
    \/ WriteOutput

Spec == Init /\ [][Next]_vars

---------------------------------------------------------------------------
(* Properties *)

AfterLoop == pc \in {"report", "write", "done"}
Terminated == pc \in {"done", "exit", "crash"}

Is200(o) == o.kind = "response" /\ o.status = 200
Failed(o) == o.kind # "response" \/ o.status >= 400

FoundIdx == { k \in 1..Len(probes) : probes[k].exists }
FoundURLs == { probes[k].url : k \in FoundIdx }
Keys(d) == { d[i].url : i \in 1..Len(d) }

\* The found probes' (joined URL, body), in the order the probes ran.
FoundSeq ==
    LET f == SelectSeq(probes, LAMBDA p : p.exists)
    IN  [n \in 1..Len(f) |-> [url |-> f[n].url, content |-> f[n].content]]

\* s with the entries of one URL collapsed into one: at the place of the
\* first, with the content of the last.
Collapse(s) ==
    LET firsts == { i \in 1..Len(s) : \A j \in 1..(i - 1) : s[j].url # s[i].url }
        nth(n) == CHOOSE i \in firsts : Cardinality({ j \in firsts : j <= i }) = n
        last(u) == CHOOSE i \in 1..Len(s) :
                      s[i].url = u /\ \A j \in (i + 1)..Len(s) : s[j].url # u
    IN  [n \in 1..Cardinality(firsts) |->
            [url |-> s[nth(n)].url, content |-> s[last(s[nth(n)].url)].content]]

\* C1: in every state, a URL is a key of found_files if and only if a
\* finished probe of that URL got a response with status 200; a URL whose
\* probes all ended in another status or an exception is not in the report.
C1_ReportIffStatus200 ==
    \A u \in Keys(found_files) \cup { requests[k] : k \in 1..Len(requests) } :
        HasKey(found_files, u)
            <=> \E k \in 1..Len(probes) : requests[k] = u /\ Is200(probes[k].outcome)

C1_Witness ==
    /\ pc = "done"
    /\ \E i, j, k \in 1..Len(probes) :
          /\ Is200(probes[i].outcome)
          /\ probes[j].outcome.kind = "RequestException"
          /\ probes[k].outcome.kind = "Exception"
          /\ HasKey(found_files, requests[i])
          /\ ~HasKey(found_files, requests[j])

\* C2: a probe that ends in an exception or a 4xx/5xx status returns
\* found = false, the process never dies of a probe, and after the loop
\* every filename of the list has been probed, in order.
C2_ProbeErrorNeverAborts ==
    /\ pc # "crash"
    /\ \A k \in 1..Len(probes) : Failed(probes[k].outcome) => ~probes[k].exists
    /\ AfterLoop =>
          /\ Len(probes) = Len(args_files)
          /\ \A k \in 1..Len(probes) : probes[k].filename = args_files[k]

C2_Witness ==
    /\ pc = "done"
    /\ Len(probes) = 3
    /\ probes[1].outcome.kind = "Exception"
    /\ probes[2].outcome.kind = "RequestException"
    /\ probes[3].exists

\* C3: with a base URL that fails validation the run exits with status 1
\* and issues no request and writes no file; with a valid base URL a run
\* that has ended has exit status 0, whatever was found, and no run stops
\* before it has ended.
C3_ExitCodes ==
    /\ ~validate_url(args_url) =>
          /\ requests = <<>>
          /\ outFile = None
          /\ pc \in {"start", "exit"}
          /\ pc = "exit" => exitCode = 1
    /\ (validate_url(args_url) /\ Terminated) => (pc = "done" /\ exitCode = 0)
    /\ ~Terminated => ENABLED Next

C3_Witness ==
    /\ pc = "exit"
    /\ exitCode = 1
    /\ args_output
    /\ ~validate_url(args_url)

RECURSIVE StripTrailing(_)
StripTrailing(s) ==
    IF endswith(s, "/") THEN StripTrailing(SubSeq(s, 1, Len(s) - 1)) ELSE s

RECURSIVE StripLeading(_)
StripLeading(s) ==
    IF startswith(s, "/") THEN StripLeading(SubSeq(s, 2, Len(s))) ELSE s

\* The base without trailing slashes, one slash, the filename without
\* leading slashes.
NormalJoin(b, f) == StripTrailing(b) \o <<"/">> \o StripLeading(f)

AtMostOneSlash(b, f) ==
    /\ ~endswith(b, "/") \/ ~endswith(SubSeq(b, 1, Len(b) - 1), "/")
    /\ ~startswith(f, "/") \/ ~startswith(SubSeq(f, 2, Len(f)), "/")

\* C4 as stated: for every base and filename the requested URL is the
\* normalized base, exactly one slash, and the normalized filename.
C4_JoinAlwaysNormal ==
    \A k \in 1..Len(requests) : requests[k] = NormalJoin(args_url, args_files[k])

\* C4, amended: for a base with at most one trailing slash and a filename
\* with at most one leading slash, the requested URL is the normalized
\* base, exactly one slash, and the normalized filename.
C4_JoinNormalUpToOneSlash ==
    \A k \in 1..Len(requests) :
        AtMostOneSlash(args_url, args_files[k])
            => requests[k] = NormalJoin(args_url, args_files[k])

C4_Witness ==
    /\ Len(requests) = 2
    /\ endswith(args_url, "/")
    /\ AtMostOneSlash(args_url, args_files[1])
    /\ startswith(args_files[1], "/")
    /\ ~startswith(args_files[2], "/")
    /\ requests[1] = requests[2]

\* C5: every probe returns the joined URL; it returns found = true with
\* the response's text exactly when the response's status is 200, and
\* found = false with no body for any other status and for an exception.
C5_Classification ==
    \A k \in 1..Len(probes) :
        LET p == probes[k]
        IN  /\ p.url = urljoin(args_url, p.filename)
            /\ p.url = requests[k]
            /\ Is200(p.outcome) => (p.exists /\ p.content = Some(p.outcome.text))
            /\ ~Is200(p.outcome) => (~p.exists /\ p.content = None)
            /\ (p.content # None) <=> p.exists

C5_Witness ==
    /\ Len(probes) = 3
    /\ Is200(probes[1].outcome) /\ probes[1].content = Some(Body2)
    /\ probes[2].outcome.status = 204 /\ probes[2].content = None
    /\ probes[3].outcome.kind = "RequestException" /\ ~probes[3].exists

\* C6: the k-th request is for the k-th filename, there are never more
\* requests than filenames, at most one request is outstanding (a request
\* is issued only when every earlier one has ended), and after the loop
\* there is exactly one request per list position.
C6_OneRequestPerFilename ==
    /\ Len(requests) <= Len(args_files)
    /\ \A k \in 1..Len(requests) : requests[k] = urljoin(args_url, args_files[k])
    /\ Len(requests) = Len(probes) + (IF pc = "get" THEN 1 ELSE 0)
    /\ AfterLoop => Len(requests) = Len(args_files)

C6_Witness ==
    /\ pc = "done"
    /\ Len(requests) = 3
    /\ args_files[1] = args_files[2]
    /\ probes[1].exists
    /\ probes[2].outcome.kind = "RequestException"

\* C7 as stated: after the loop the report's entries are the found probes'
\* (joined URL, body), one entry per found probe, in probe order.
C7_ReportIsFoundSeq ==
    AfterLoop => found_files = FoundSeq

\* C7, amended: after the loop the report's entries are the found probes'
\* (joined URL, body) in probe order with the found probes of one joined
\* URL sharing one entry; when no two found probes have the same joined
\* URL, the report is the sequence of the found probes' (joined URL, body).
C7_ReportIsCollapsedFoundSeq ==
    AfterLoop =>
        /\ found_files = Collapse(FoundSeq)
        /\ Cardinality(FoundURLs) = Cardinality(FoundIdx) => found_files = FoundSeq

C7_Witness ==
    /\ pc = "done"
    /\ Cardinality(FoundIdx) = 2
    /\ Cardinality(FoundURLs) = 2
    /\ Len(probes) = 3
    /\ ~probes[2].exists
    /\ found_files = FoundSeq

RECURSIVE Occurrences(_, _)
Occurrences(s, x) ==
    IF s = <<>> THEN 0
    ELSE (IF Head(s) = x THEN 1 ELSE 0) + Occurrences(Tail(s), x)

RECURSIVE BodyOccurrences(_, _)
BodyOccurrences(d, x) ==
    IF d = <<>> THEN 0
    ELSE Occurrences(Head(d).content[1], x) + BodyOccurrences(Tail(d), x)

FortyDashes ==
    <<"-", "-", "-", "-", "-", "-", "-", "-", "-", "-",
      "-", "-", "-", "-", "-", "-", "-", "-", "-", "-",
      "-", "-", "-", "-", "-", "-", "-", "-", "-", "-",
      "-", "-", "-", "-", "-", "-", "-", "-", "-", "-">>

\* The lines the file must hold for the report d: per entry the URL, the
\* body's lines and the separator.
RECURSIVE ExpectedBlocks(_)
ExpectedBlocks(d) ==
    IF d = <<>> THEN <<>>
    ELSE << <<"URL: ">> \o Head(d).url, <<"Content:">> >>
         \o Head(d).content[1] \o <<FortyDashes>> \o ExpectedBlocks(Tail(d))

WrittenOk == pc = "done" /\ writeResult = "ok"

\* C8 as stated: a written file is the single "No sensitive files found."
\* line when nothing was found; otherwise it holds each entry's URL, body
\* and 40-dash separator in report order and no "No sensitive files found."
\* line.
C8_FileWithoutNoneFoundLine ==
    WrittenOk =>
        IF FoundIdx = {}
        THEN outFile = Some(<<NoneFoundLine>>)
        ELSE /\ outFile = Some(<<HeaderLine>> \o ExpectedBlocks(found_files))
             /\ Occurrences(outFile[1], NoneFoundLine) = 0

\* C8, amended: a written file is the single "No sensitive files found."
\* line when nothing was found; otherwise it holds each entry's URL, body
\* and 40-dash separator in report order, and a "No sensitive files found."
\* line occurs in it only as a line of an entry's body.
C8_FileContent ==
    WrittenOk =>
        IF FoundIdx = {}
        THEN outFile = Some(<<NoneFoundLine>>)
        ELSE /\ outFile = Some(<<HeaderLine>> \o ExpectedBlocks(found_files))
             /\ Occurrences(outFile[1], NoneFoundLine)
                    = BodyOccurrences(found_files, NoneFoundLine)

C8_Witness ==
    /\ WrittenOk
    /\ Len(found_files) = 2
    /\ found_files[1].content = Some(Body1)
    /\ found_files[2].content = Some(Body2)
    /\ Len(outFile[1]) = 10

\* C9: a step of the output write that fails ends the run with exit
\* status 0 and leaves the report and the logged outcome as they were.
C9_WriteFailureCaught ==
    [][(pc = "write" /\ writeResult' \in {"open_error", "write_error"})
          => /\ pc' = "done"
             /\ exitCode' = 0
             /\ found_files' = found_files
             /\ reported' = reported]_vars

C9_Witness ==
    /\ pc = "done"
    /\ writeResult = "write_error"
    /\ exitCode = 0
    /\ reported = "found"
    /\ Len(found_files) = 2
    /\ outFile # None /\ Len(outFile[1]) = 3

\* C10: after the loop each joined URL of a found probe has exactly one
\* report entry, which stands where the first found probe of that URL put
\* it (after the entries of the URLs found earlier) and holds the body of
\* the last found probe of that URL; the report has as many entries as the
\* found probes have distinct joined URLs.
C10_OneEntryPerURL ==
    AfterLoop =>
        /\ Len(found_files) = Cardinality(FoundURLs)
        /\ \A u \in FoundURLs :
              LET of == { k \in FoundIdx : probes[k].url = u }
                  first == CHOOSE k \in of : \A j \in of : k <= j
                  last == CHOOSE k \in of : \A j \in of : j <= k
                  before == { probes[j].url : j \in { j \in FoundIdx : j < first } }
              IN  /\ Cardinality({ i \in 1..Len(found_files) : found_files[i].url = u }) = 1
                  /\ found_files[Cardinality(before) + 1].url = u
                  /\ found_files[Cardinality(before) + 1].content = probes[last].content

C10_Witness ==
    /\ pc = "done"
    /\ Cardinality(FoundIdx) = 3
    /\ Len(found_files) = 2
    /\ probes[1].url = probes[3].url
    /\ probes[1].filename # probes[3].filename
    /\ probes[1].content # probes[3].content
    /\ found_files[1].url = probes[1].url
    /\ found_files[1].content = probes[3].content

====
